---- MODULE Spec2Model ----
(***************************************************************************)
(* Qlick: a Flask quiz application in two near-duplicate builds            *)
(*   "Qlick"        = src/Qlick/app.py              (language label, pads) *)
(*   "QlickProject" = src/Qlick Project/Qlick/app.py                       *)
(*                                                                         *)
(* Representation of Python values.                                        *)
(*   A text (str) is a sequence of symbols.  A symbol is a TLA+ string     *)
(*   standing for a run of characters: the structural characters           *)
(*   { } [ ] " ' : , - + the digits, the blank " " and the newline "\n"    *)
(*   are symbols of their own; every other symbol ("question", "abc",      *)
(*   "null", ...) is a run of letters that holds none of those.            *)
(*   A value produced by json.loads is a tagged record:                    *)
(*     [tag |-> "null"]  [tag |-> "bool", b]  [tag |-> "int", n]           *)
(*     [tag |-> "str", s]  [tag |-> "list", items]                         *)
(*     [tag |-> "dict", items]   items a sequence of <<key, value>>        *)
(*   A question of a quiz is the record [question, choices, answer_index]  *)
(*   of such values and a quiz the record [questions |-> <<...>>].         *)
(***************************************************************************)
EXTENDS Integers, Sequences, FiniteSets, TLC

VARIABLES impl, HAS_OPENAI, OPENAI_API_KEY, session, request, response, sent

vars == <<impl, HAS_OPENAI, OPENAI_API_KEY, session, request, response, sent>>

-----------------------------------------------------------------------------
(* Python values *)

PyNone == [tag |-> "null"]
PyBool(b) == [tag |-> "bool", b |-> b]
PyInt(n) == [tag |-> "int", n |-> n]
PyStr(s) == [tag |-> "str", s |-> s]
PyList(items) == [tag |-> "list", items |-> items]
PyDict(items) == [tag |-> "dict", items |-> items]

EmptyDict == PyDict(<<>>)

\* F(v) with v evaluated once, as a Python statement "x = v" does
Eval(v, F(_)) == CHOOSE r \in {F(x) : x \in {v}} : TRUE

Min(a, b) == IF a < b THEN a ELSE b
Max(a, b) == IF a > b THEN a ELSE b

\* Python truthiness of a value (the operand of "or" and "not")
Truthy(v) ==
    CASE v.tag = "null" -> FALSE
      [] v.tag = "bool" -> v.b
      [] v.tag = "int"  -> v.n # 0
      [] v.tag = "str"  -> Len(v.s) > 0
      [] v.tag = "list" -> Len(v.items) > 0
      [] v.tag = "dict" -> Len(v.items) > 0

\* x or y
PyOr(x, y) == IF Truthy(x) THEN x ELSE y

-----------------------------------------------------------------------------
(* Texts *)

Whitespace == {" ", "\n"}
Digit == {"0", "1", "2", "3", "4", "5", "6", "7", "8", "9"}

DigitVal(c) ==
    CASE c = "0" -> 0 [] c = "1" -> 1 [] c = "2" -> 2 [] c = "3" -> 3
      [] c = "4" -> 4 [] c = "5" -> 5 [] c = "6" -> 6 [] c = "7" -> 7
      [] c = "8" -> 8 [] c = "9" -> 9

DigitSym(d) ==
    CASE d = 0 -> "0" [] d = 1 -> "1" [] d = 2 -> "2" [] d = 3 -> "3"
      [] d = 4 -> "4" [] d = 5 -> "5" [] d = 6 -> "6" [] d = 7 -> "7"
      [] d = 8 -> "8" [] d = 9 -> "9"

\* first index >= i of s that is past the end or holds no whitespace
SkipWs(s, i) ==
    CHOOSE j \in i..(Len(s) + 1) :
        /\ \A k \in i..(j - 1) : s[k] \in Whitespace
        /\ (j = Len(s) + 1 \/ s[j] \notin Whitespace)

\* str.strip()
Strip(s) ==
    LET a == SkipWs(s, 1)
        b == IF a > Len(s) THEN 0
             ELSE CHOOSE j \in a..Len(s) :
                     /\ s[j] \notin Whitespace
                     /\ \A k \in (j + 1)..Len(s) : s[k] \in Whitespace
    IN  IF a > Len(s) THEN <<>> ELSE SubSeq(s, a, b)

\* value of the digit run s[i..j]
RECURSIVE DigitsVal(_, _, _)
DigitsVal(s, i, j) ==
    IF j < i THEN 0 ELSE 10 * DigitsVal(s, i, j - 1) + DigitVal(s[j])

\* decimal text of a natural number
RECURSIVE NatText(_)
NatText(n) ==
    IF n < 10 THEN <<DigitSym(n)>> ELSE Append(NatText(n \div 10), DigitSym(n % 10))

\* str(n) of an int
IntText(n) == IF n < 0 THEN <<"-">> \o NatText(0 - n) ELSE NatText(n)

\* int(s) of a text: [ok, n]; ok = FALSE stands for ValueError
IntOfText(s) ==
    LET t == Strip(s)
        signed == Len(t) > 0 /\ t[1] \in {"-", "+"}
        from == IF signed THEN 2 ELSE 1
    IN  IF from <= Len(t) /\ \A k \in from..Len(t) : t[k] \in Digit
        THEN [ok |-> TRUE,
              n |-> IF signed /\ t[1] = "-" THEN 0 - DigitsVal(t, from, Len(t))
                    ELSE DigitsVal(t, from, Len(t))]
        ELSE [ok |-> FALSE, n |-> 0]

-----------------------------------------------------------------------------
(* json.loads: the decoder of the standard library, on the symbols above      *)
(* (no escapes, no fractions or exponents: the alphabet has no \ . e E)       *)

Fail == [ok |-> FALSE, val |-> PyNone, pos |-> 0]
Ok(v, p) == [ok |-> TRUE, val |-> v, pos |-> p]

\* dict[k] = v : a repeated key keeps its place and takes the last value
DictSet(items, k, v) ==
    IF \E p \in 1..Len(items) : items[p][1] = k
    THEN [p \in 1..Len(items) |-> IF items[p][1] = k THEN <<k, v>> ELSE items[p]]
    ELSE Append(items, <<k, v>>)

\* a string literal opening at s[i] = "\""
ParseString(s, i) ==
    LET closing == {j \in (i + 1)..Len(s) : s[j] = "\""}
    IN  IF closing = {} THEN Fail
        ELSE LET j == CHOOSE x \in closing : \A y \in closing : x <= y
             IN  IF \E k \in (i + 1)..(j - 1) : s[k] = "\n" THEN Fail
                 ELSE Ok(PyStr(SubSeq(s, i + 1, j - 1)), j + 1)

\* NUMBER_RE at s[i]: -?(0|[1-9][0-9]*)
ParseNumber(s, i) ==
    LET d == IF s[i] = "-" THEN i + 1 ELSE i
    IN  IF d > Len(s) \/ s[d] \notin Digit THEN Fail
        ELSE LET e == IF s[d] = "0" THEN d
                      ELSE CHOOSE j \in d..Len(s) :
                              /\ \A k \in d..j : s[k] \in Digit
                              /\ (j = Len(s) \/ s[j + 1] \notin Digit)
                 n == DigitsVal(s, d, e)
             IN  Ok(PyInt(IF s[i] = "-" THEN 0 - n ELSE n), e + 1)

RECURSIVE ParseValue(_, _), ParseMembers(_, _, _), ParseElements(_, _, _)

\* scan_once at index i
ParseValue(s, at) ==
    Eval(at, LAMBDA i :
    IF i > Len(s) THEN Fail
    ELSE CASE s[i] = "\"" -> ParseString(s, i)
           [] s[i] = "{" ->
                Eval(SkipWs(s, i + 1), LAMBDA k :
                    IF k <= Len(s) /\ s[k] = "}" THEN Ok(EmptyDict, k + 1)
                    ELSE ParseMembers(s, k, <<>>))
           [] s[i] = "[" ->
                Eval(SkipWs(s, i + 1), LAMBDA k :
                    IF k <= Len(s) /\ s[k] = "]" THEN Ok(PyList(<<>>), k + 1)
                    ELSE ParseElements(s, k, <<>>))
           [] s[i] = "null" -> Ok(PyNone, i + 1)
           [] s[i] = "true" -> Ok(PyBool(TRUE), i + 1)
           [] s[i] = "false" -> Ok(PyBool(FALSE), i + 1)
           [] s[i] = "-" \/ s[i] \in Digit -> ParseNumber(s, i)
           [] OTHER -> Fail)

\* JSONObject: the members from the key expected at index i
ParseMembers(s, i, acc) ==
    IF i > Len(s) \/ s[i] # "\"" THEN Fail
    ELSE Eval(ParseString(s, i), LAMBDA key :
         Eval(IF key.ok THEN SkipWs(s, key.pos) ELSE 0, LAMBDA c :
             IF ~key.ok THEN Fail
             ELSE IF c > Len(s) \/ s[c] # ":" THEN Fail
             ELSE Eval(ParseValue(s, SkipWs(s, c + 1)), LAMBDA v :
                  Eval(IF v.ok THEN SkipWs(s, v.pos) ELSE 0, LAMBDA e :
                  Eval(DictSet(acc, key.val.s, v.val), LAMBDA acc2 :
                      IF ~v.ok THEN Fail
                      ELSE IF e > Len(s) THEN Fail
                      ELSE IF s[e] = "}" THEN Ok(PyDict(acc2), e + 1)
                      ELSE IF s[e] = "," THEN ParseMembers(s, SkipWs(s, e + 1), acc2)
                      ELSE Fail)))))

\* JSONArray: the elements from the value expected at index i
ParseElements(s, i, acc) ==
    Eval(ParseValue(s, i), LAMBDA v :
    Eval(IF v.ok THEN SkipWs(s, v.pos) ELSE 0, LAMBDA e :
    Eval(Append(acc, v.val), LAMBDA acc2 :
        IF ~v.ok THEN Fail
        ELSE IF e > Len(s) THEN Fail
        ELSE IF s[e] = "]" THEN Ok(PyList(acc2), e + 1)
        ELSE IF s[e] = "," THEN ParseElements(s, SkipWs(s, e + 1), acc2)
        ELSE Fail)))

\* json.loads(s): ok = FALSE stands for JSONDecodeError
JsonLoads(text) ==
    Eval(text, LAMBDA s :
    Eval(ParseValue(s, SkipWs(s, 1)), LAMBDA r :
        IF r.ok /\ SkipWs(s, r.pos) = Len(s) + 1
        THEN [ok |-> TRUE, val |-> r.val]
        ELSE [ok |-> FALSE, val |-> PyNone]))

\* re.search(r"\{[\s\S]*\}", raw): the span from the first { to the last }
BraceSpan(s) ==
    LET opens == {j \in 1..Len(s) : s[j] = "{"}
        first == CHOOSE x \in opens : \A y \in opens : x <= y
        closes == {j \in 1..Len(s) : s[j] = "}" /\ j > first}
        last == CHOOSE x \in closes : \A y \in closes : x >= y
    IN  IF opens = {} \/ closes = {} THEN [found |-> FALSE, span |-> <<>>]
        ELSE [found |-> TRUE, span |-> SubSeq(s, first, last)]

\* raw.replace("'", '"')
ReplaceQuotes(s) == [k \in 1..Len(s) |-> IF s[k] = "'" THEN "\"" ELSE s[k]]

\* _to_json(raw): raised = TRUE stands for the TypeError of re.search on a
\* reply that is not text; attempt names the return statement taken
\* (1 strict, 2 span, 3 quotes replaced, 0 the final "return {}")
_to_json(raw) ==
    IF raw.tag # "str" THEN [raised |-> TRUE, val |-> PyNone, attempt |-> 0]
    ELSE Eval(JsonLoads(raw.s), LAMBDA a1 :
         IF a1.ok THEN [raised |-> FALSE, val |-> a1.val, attempt |-> 1]
         ELSE Eval(BraceSpan(raw.s), LAMBDA m :
              Eval(IF m.found THEN JsonLoads(m.span) ELSE a1, LAMBDA a2 :
              IF m.found /\ a2.ok THEN [raised |-> FALSE, val |-> a2.val, attempt |-> 2]
              ELSE Eval(JsonLoads(ReplaceQuotes(raw.s)), LAMBDA a3 :
                   IF a3.ok THEN [raised |-> FALSE, val |-> a3.val, attempt |-> 3]
                   ELSE [raised |-> FALSE, val |-> EmptyDict, attempt |-> 0]))))

-----------------------------------------------------------------------------
(* Inputs of _to_json *)

JsonMaxLen == 3

JsonAlphabet ==
    {"{", "}", "[", "]", "\"", "'", ":", ",", "-", "0", "1", " ", "\n", "a", "null"}

\* every text of at most n symbols of the alphabet
RECURSIVE TextsUpTo(_)
TextsUpTo(n) ==
    IF n = 0 THEN {<<>>}
    ELSE LET shorter == TextsUpTo(n - 1)
         IN  shorter \cup {Append(t, c) : t \in shorter, c \in JsonAlphabet}

\* replies of the shapes a model produces: an object, bare or wrapped in
\* prose, with double or single quotes
ReplyCores ==
    { <<"{", "\"", "a", "\"", ":", "1", "}">>,
      <<"{", "'", "a", "'", ":", "1", "}">>,
      <<"{", "\"", "a", "\"", ":", "'", "b", "'", "}">>,
      <<"{", "\"", "a", "\"", ":", "\"", "it", "'", "s", "\"", "}">>,
      <<"{", "\"", "a", "\"", ":", "[", "1", ",", "-", "1", "0", "]", ",", " ",
        "\"", "a", "\"", ":", "null", "}">>,
      <<"[", "{", "'", "a", "'", ":", "true", "}", "]">>,
      <<"{", "\"", "a", "\"", ":", "{", "\"", "b", "\"", ":", "false", "}", "}">>,
      <<"{", "\"", "a", "\"", ":", "0", "1", "}">>,
      <<"{", "\"", "a", "\"", ":", "1", ",", "}">>,
      <<"[", "1", ",", "]">>,
      <<"[", "[", "]", ",", " ", "\"", "'", "\"", "]">>,
      <<"-", "0", "1">>,
      <<"\"", "a", "\"", " ", "\"", "a", "\"">> }

ReplyWraps == {<<>>, <<"a", " ">>, <<"\n">>, <<"{">>, <<"}">>, <<"'">>, <<"[">>}

RawReplies ==
    {PyStr(t) : t \in TextsUpTo(JsonMaxLen)}
        \cup {PyStr(pre \o core \o post) :
                 pre \in ReplyWraps, core \in ReplyCores, post \in ReplyWraps}
        \cup {PyNone}

NoSession == [quiz |-> PyNone, language |-> PyNone, flashes |-> 0]
Idle == [kind |-> "none"]

InitJson ==
    /\ impl \in {"Qlick", "QlickProject"}
    /\ HAS_OPENAI = FALSE
    /\ OPENAI_API_KEY = PyNone
    /\ session = NoSession
    /\ sent = <<>>
    /\ response = Idle
    /\ \E raw \in RawReplies : request = [op |-> "_to_json", raw |-> raw]

CallToJson ==
    /\ request.op = "_to_json"
    /\ response = Idle
    /\ response' = [kind |-> "_to_json", result |-> _to_json(request.raw)]
    /\ UNCHANGED <<impl, HAS_OPENAI, OPENAI_API_KEY, session, request, sent>>

NextJson == CallToJson

SpecJson == InitJson /\ [][NextJson]_vars

-----------------------------------------------------------------------------
(* str() and int() of a value, dict.get *)

\* repr(s) of a str: single quotes unless s holds ' and no "
ReprText(s) ==
    LET dq == (\E k \in 1..Len(s) : s[k] = "'") /\ ~(\E k \in 1..Len(s) : s[k] = "\"")
        q == IF dq THEN "\"" ELSE "'"
        esc(c) == IF c = "\n" THEN "\\n"
                  ELSE IF c = "'" /\ ~dq THEN "\\'" ELSE c
    IN  <<q>> \o [k \in 1..Len(s) |-> esc(s[k])] \o <<q>>

RECURSIVE Repr(_), ReprItems(_, _), ReprPairs(_, _)

\* repr(v)
Repr(v) ==
    CASE v.tag = "null" -> <<"None">>
      [] v.tag = "bool" -> IF v.b THEN <<"True">> ELSE <<"False">>
      [] v.tag = "int"  -> IntText(v.n)
      [] v.tag = "str"  -> ReprText(v.s)
      [] v.tag = "list" -> <<"[">> \o ReprItems(v.items, 1) \o <<"]">>
      [] v.tag = "dict" -> <<"{">> \o ReprPairs(v.items, 1) \o <<"}">>

ReprItems(items, i) ==
    IF i > Len(items) THEN <<>>
    ELSE (IF i > 1 THEN <<",", " ">> ELSE <<>>) \o Repr(items[i]) \o ReprItems(items, i + 1)

ReprPairs(items, i) ==
    IF i > Len(items) THEN <<>>
    ELSE (IF i > 1 THEN <<",", " ">> ELSE <<>>)
            \o ReprText(items[i][1]) \o <<":", " ">> \o Repr(items[i][2])
            \o ReprPairs(items, i + 1)

\* str(v)
StrOf(v) == IF v.tag = "str" THEN v.s ELSE Repr(v)

\* int(v): ok = FALSE stands for ValueError / TypeError
IntOf(v) ==
    CASE v.tag = "int"  -> [ok |-> TRUE, n |-> v.n]
      [] v.tag = "bool" -> [ok |-> TRUE, n |-> IF v.b THEN 1 ELSE 0]
      [] v.tag = "str"  -> IntOfText(v.s)
      [] OTHER -> [ok |-> FALSE, n |-> 0]

\* d.get(key, default) of a dict d
DictGet(d, key, default) ==
    IF \E p \in 1..Len(d.items) : d.items[p][1] = key
    THEN d.items[CHOOSE p \in 1..Len(d.items) : d.items[p][1] = key][2]
    ELSE default

-----------------------------------------------------------------------------
(* generate_mcqs *)

MinQuestions == 1
MaxQuestions == 10
NumChoices == 4
MaxAnswerIndex == 3
MaterialBudget == 8000

\* max(1, min(n, 10))
ClampCount(n) == Max(MinQuestions, Min(n, MaxQuestions))

\* Mutant: the upper clamp of answer_index is forgotten
ClampAnswerNoUpper(ai) == Max(0, ai)

\* max(0, min(ai, 3))
ClampAnswer(ai) == Max(0, Min(ai, MaxAnswerIndex))

PlaceholderChoices ==
    PyList(<< PyStr(<<"Option", " ", "A">>), PyStr(<<"Option", " ", "B">>),
              PyStr(<<"Option", " ", "C">>), PyStr(<<"Option", " ", "D">>) >>)

\* the language suffix of a placeholder text: " ({language})" in Qlick only
LanguageSuffix(im, language) ==
    IF im = "Qlick" THEN <<" ", "(">> \o StrOf(language) \o <<")">> ELSE <<>>

\* one padding question of Qlick: f"Dummy Question {k}? ({language})"
DummyQuestion(k, language) ==
    [question |-> PyStr(<<"Dummy", " ", "Question", " ">> \o NatText(k) \o <<"?">>
                            \o LanguageSuffix("Qlick", language)),
     choices |-> PlaceholderChoices,
     answer_index |-> PyInt(0)]

\* one fallback question: f"Sample Question {i}?" (plus the language in Qlick)
SampleQuestion(im, i, language) ==
    [question |-> PyStr(<<"Sample", " ", "Question", " ">> \o NatText(i) \o <<"?">>
                            \o LanguageSuffix(im, language)),
     choices |-> PlaceholderChoices,
     answer_index |-> PyInt(0)]

\* the fallback quiz: questions 1..num_q
Fallback(im, num_q, language) ==
    [questions |-> [i \in 1..num_q |-> SampleQuestion(im, i, language)]]

\* the candidate q accepted: question, choices and answer_index normalised
CleanQuestion(q) ==
    LET ai == IntOf(DictGet(q, <<"answer_index">>, PyInt(0)))
        choices == PyOr(DictGet(q, <<"choices">>, PyNone), PyList(<<>>))
    IN  [question |-> PyStr(Strip(StrOf(DictGet(q, <<"question">>, PyStr(<<>>))))),
         choices |-> PyList([k \in 1..Len(choices.items) |->
                                PyStr(StrOf(choices.items[k]))]),
         answer_index |-> PyInt(ClampAnswer(IF ai.ok THEN ai.n ELSE 0))]

\* the test that skips a candidate:
\*   not question or not isinstance(choices, list) or len(choices) != 4
Skipped(q) ==
    LET question == Strip(StrOf(DictGet(q, <<"question">>, PyStr(<<>>))))
        choices == PyOr(DictGet(q, <<"choices">>, PyNone), PyList(<<>>))
    IN  \/ Len(question) = 0
        \/ choices.tag # "list"
        \/ Len(choices.items) # NumChoices

\* the for loop over the sliced candidates, from entry i on; raised stands
\* for the AttributeError of q.get on an entry that is no dict
RECURSIVE CleanLoop(_, _, _)
CleanLoop(candidates, i, sofar) ==
    Eval(candidates, LAMBDA entries :
    Eval(sofar, LAMBDA cleaned :
        IF i > Len(entries) THEN [raised |-> FALSE, cleaned |-> cleaned]
        ELSE IF entries[i].tag # "dict" THEN [raised |-> TRUE, cleaned |-> cleaned]
        ELSE IF Skipped(entries[i]) THEN CleanLoop(entries, i + 1, cleaned)
        ELSE CleanLoop(entries, i + 1, Append(cleaned, CleanQuestion(entries[i])))))

\* Mutant: the list is not cut to the first num_q candidates
SlicedAll(items, num_q) == items

\* items[:num_q]
Sliced(items, num_q) == SubSeq(items, 1, Min(num_q, Len(items)))

\* the while loop of Qlick: while len(cleaned) < num_q a dummy question
\* numbered len(cleaned) + 1 is appended
Pad(cleaned, num_q, language) ==
    [k \in 1..Max(Len(cleaned), num_q) |->
        IF k <= Len(cleaned) THEN cleaned[k] ELSE DummyQuestion(k, language)]

\* what is done with the list cleaned before "if cleaned:"
Finish(im, cleaned, num_q, language) ==
    IF im = "Qlick" THEN Pad(cleaned, num_q, language) ELSE cleaned

\* the dict lookup of the language instruction, English when unknown
LangInstruction(language) ==
    IF language = PyStr(<<"ZhongWen">>) THEN "zh-Hant" ELSE "en"

\* the request sent to the backend
Prompt(im, source_text, num_q, language) ==
    [num_q |-> num_q,
     instruction |-> IF im = "Qlick" THEN LangInstruction(language) ELSE "none",
     json_mode |-> (im = "Qlick"),
     material |-> SubSeq(source_text, 1, Min(Len(source_text), MaterialBudget))]

NotReturned == [returned |-> FALSE, questions |-> <<>>, derived |-> 0]

\* the body of the try block after the request: returned = TRUE when it ends
\* in "return {"questions": cleaned}", FALSE when an exception was caught or
\* cleaned was empty.  derived = len(cleaned) before padding.
TryReply(im, num_q, language, backend) ==
    IF backend.kind = "raise" THEN NotReturned
    ELSE Eval(_to_json(backend.content), LAMBDA data :
         IF backend.content.tag # "str" \/ data.raised THEN NotReturned
         ELSE IF data.val.tag # "dict" THEN NotReturned
         ELSE Eval(PyOr(DictGet(data.val, <<"questions">>, PyNone), PyList(<<>>)),
                   LAMBDA questions :
              IF questions.tag # "list" THEN NotReturned
              ELSE Eval(CleanLoop(Sliced(questions.items, num_q), 1, <<>>), LAMBDA loop :
                   IF loop.raised THEN NotReturned
                   ELSE Eval(Finish(im, loop.cleaned, num_q, language), LAMBDA cleaned :
                        IF cleaned = <<>> THEN NotReturned
                        ELSE [returned |-> TRUE, questions |-> cleaned,
                              derived |-> Len(loop.cleaned)]))))

\* generate_mcqs(source_text, num_q, language) with the backend's outcome:
\*   raised  the ValueError of int(num_q) left the function
\*   sent    the requests issued to the backend
\*   path    the return statement taken
GenerateMcqs(im, has_openai, api_key, source_text, num_q, language, backend) ==
    Eval(IntOf(num_q), LAMBDA n0 :
    Eval(ClampCount(n0.n), LAMBDA n :
    Eval(has_openai /\ Truthy(api_key), LAMBDA enabled :
    Eval(IF n0.ok /\ enabled THEN TryReply(im, n, language, backend) ELSE NotReturned,
         LAMBDA try :
        IF ~n0.ok
        THEN [raised |-> TRUE, sent |-> <<>>, path |-> "raise",
              quiz |-> [questions |-> <<>>], derived |-> 0]
        ELSE IF enabled /\ try.returned
        THEN [raised |-> FALSE, sent |-> <<Prompt(im, source_text, n, language)>>,
              path |-> "backend",
              quiz |-> [questions |-> try.questions], derived |-> try.derived]
        ELSE [raised |-> FALSE,
              sent |-> IF enabled THEN <<Prompt(im, source_text, n, language)>> ELSE <<>>,
              path |-> "fallback",
              quiz |-> Fallback(im, n, language), derived |-> 0]))))

-----------------------------------------------------------------------------
(* The backend's replies: JSON texts of candidate lists, and malformed ones *)

RECURSIVE JsonText(_), JsonItems(_, _), JsonPairs(_, _)

\* the JSON text of a value
JsonText(v) ==
    CASE v.tag = "null" -> <<"null">>
      [] v.tag = "bool" -> IF v.b THEN <<"true">> ELSE <<"false">>
      [] v.tag = "int"  -> IntText(v.n)
      [] v.tag = "str"  -> <<"\"">> \o v.s \o <<"\"">>
      [] v.tag = "list" -> <<"[">> \o JsonItems(v.items, 1) \o <<"]">>
      [] v.tag = "dict" -> <<"{">> \o JsonPairs(v.items, 1) \o <<"}">>

JsonItems(items, i) ==
    IF i > Len(items) THEN <<>>
    ELSE (IF i > 1 THEN <<",", " ">> ELSE <<>>) \o JsonText(items[i]) \o JsonItems(items, i + 1)

JsonPairs(items, i) ==
    IF i > Len(items) THEN <<>>
    ELSE (IF i > 1 THEN <<",">> ELSE <<>>)
            \o <<"\"">> \o items[i][1] \o <<"\"", ":">> \o JsonText(items[i][2])
            \o JsonPairs(items, i + 1)

\* a Python-style literal: every " written as '
SingleQuoted(s) == [k \in 1..Len(s) |-> IF s[k] = "\"" THEN "'" ELSE s[k]]

Absent == [tag |-> "absent"]

\* a candidate with the given fields, a field Absent left out
Candidate(question, choices, answer_index) ==
    PyDict(SelectSeq(<< <<<<"question">>, question>>,
                        <<<<"choices">>, choices>>,
                        <<<<"answer_index">>, answer_index>> >>,
                     LAMBDA kv : kv[2] # Absent))

Texts(names) == [k \in 1..Len(names) |-> PyStr(<<names[k]>>)]

ChoicesABCD == PyList(Texts(<<"a", "b", "c", "d">>))

\* the accepted candidate number i
Good(i) == Candidate(PyStr(<<"Q">> \o NatText(i)), ChoicesABCD, PyInt(i % NumChoices))

QuestionValues ==
    { Absent, PyNone, PyStr(<<>>), PyStr(<<" ", " ">>), PyStr(<<" ", "Qb", " ">>),
      PyInt(0), PyList(<<>>) }

ChoicesValues ==
    { Absent, PyNone, PyStr(<<"abcd">>), PyInt(4), PyList(<<>>),
      PyList(Texts(<<"a", "b", "c">>)), PyList(Texts(<<"a", "b", "c", "d", "e">>)),
      PyList(<<PyInt(1), PyBool(TRUE), PyNone, PyStr(<<"d">>)>>),
      PyDict(<< <<<<"a">>, PyInt(1)>>, <<<<"b">>, PyInt(2)>>,
                <<<<"c">>, PyInt(3)>>, <<<<"d">>, PyInt(4)>> >>) }

AnswerValues ==
    { Absent, PyNone, PyStr(<<"x">>), PyStr(<<"2">>), PyStr(<<" ", "3">>),
      PyInt(-1), PyInt(0), PyInt(3), PyInt(5), PyBool(TRUE), PyList(<<PyInt(1)>>) }

NonMappings == {PyStr(<<"junk">>), PyInt(5), PyNone, PyList(<<>>)}

\* candidates that differ from an accepted one in one field, and entries
\* that are no mappings
FullPool ==
    {Candidate(q, ChoicesABCD, PyInt(1)) : q \in QuestionValues}
        \cup {Candidate(PyStr(<<"Qc">>), c, PyInt(2)) : c \in ChoicesValues}
        \cup {Candidate(PyStr(<<"Qd">>), ChoicesABCD, a) : a \in AnswerValues}
        \cup NonMappings

SmallPool ==
    { Good(1),
      Candidate(PyStr(<<" ", "Qb">>),
                PyList(<<PyInt(1), PyBool(TRUE), PyNone, PyStr(<<"d">>)>>), PyInt(5)),
      Candidate(PyStr(<<" ">>), ChoicesABCD, PyInt(2)),
      Candidate(PyStr(<<"Qc">>), PyList(Texts(<<"a", "b", "c">>)), PyInt(0)),
      PyStr(<<"junk">>) }

MaxReplyLen == 2

RECURSIVE SeqsUpTo(_, _)
SeqsUpTo(S, n) ==
    IF n = 0 THEN {<<>>}
    ELSE LET shorter == SeqsUpTo(S, n - 1)
         IN  shorter \cup {Append(t, c) : t \in shorter, c \in S}

CandidateLists ==
    SeqsUpTo(SmallPool, MaxReplyLen)
        \cup {<<c>> : c \in FullPool}
        \cup {<<c, Good(2)>> : c \in FullPool}
        \cup {[i \in 1..(MaxQuestions + 1) |-> Good(i)]}
        \cup {[i \in 1..(MaxQuestions + 2) |->
                  IF i = 2 THEN Candidate(PyStr(<<>>), ChoicesABCD, PyInt(0))
                  ELSE Good(1 + (i % 5))]}

QuizReply(entries) == PyDict(<< <<<<"questions">>, PyList(entries)>> >>)

\* replies whose text is no mapping with a list of questions
OddReplies ==
    { JsonText(PyList(<<Good(1)>>)), <<"5">>, <<"null">>, <<"\"", "abc", "\"">>,
      <<"{", "}">>, <<>>, <<"oops">>,
      JsonText(PyDict(<< <<<<"items">>, PyList(<<Good(1)>>)>> >>)),
      JsonText(PyDict(<< <<<<"questions">>, PyNone>> >>)),
      JsonText(PyDict(<< <<<<"questions">>, PyStr(<<"abc">>)>> >>)),
      JsonText(PyDict(<< <<<<"questions">>, PyInt(5)>> >>)),
      JsonText(PyDict(<< <<<<"questions">>, PyBool(TRUE)>> >>)),
      JsonText(PyDict(<< <<<<"questions">>, Good(1)>> >>)),
      <<"{", "\"", "questions", "\"", ":", "[">>,
      <<"Here", " ", "you", " ", "go", ":", "\n">>
          \o JsonText(QuizReply(<<Good(1), Good(2)>>)) \o <<"\n", "Enjoy">>,
      SingleQuoted(JsonText(QuizReply(<<Good(1), Good(2)>>))),
      <<"x">> \o SingleQuoted(JsonText(QuizReply(<<Good(1)>>))) }

\* what the one request to the backend ends in
BackendOutcomes ==
    {[kind |-> "raise"], [kind |-> "reply", content |-> PyNone]}
        \cup {[kind |-> "reply", content |-> PyStr(JsonText(QuizReply(entries)))] :
                 entries \in CandidateLists}
        \cup {[kind |-> "reply", content |-> PyStr(t)] : t \in OddReplies}

Unused == [kind |-> "unused"]

ApiKeys == {PyNone, PyStr(<<>>), PyStr(<<"sk">>)}

Languages(im) ==
    IF im = "Qlick"
    THEN {PyStr(<<"English">>), PyStr(<<"ZhongWen">>), PyStr(<<"Deutsch">>)}
    ELSE {PyNone}

\* the num_questions form field as the route passes it, and int arguments
NumFields ==
    {PyStr(t) : t \in { <<"5">>, <<"-", "3">>, <<"0">>, <<"1">>, <<"2">>, <<"3">>,
                        <<"1", "0">>, <<"1", "5">>, <<" ", "4", "\n">>,
                        <<"abc">>, <<>> }}
        \cup {PyInt(2), PyInt(12)}

SourceTexts == {<<"abc">>, <<>>}

InitGen ==
    /\ impl \in {"Qlick", "QlickProject"}
    /\ HAS_OPENAI \in BOOLEAN
    /\ OPENAI_API_KEY \in ApiKeys
    /\ session = NoSession
    /\ sent = <<>>
    /\ response = Idle
    /\ \E text \in SourceTexts, num \in NumFields, language \in Languages(impl),
          backend \in IF HAS_OPENAI /\ Truthy(OPENAI_API_KEY)
                      THEN BackendOutcomes ELSE {Unused} :
          request = [op |-> "generate_mcqs", source_text |-> text, num_q |-> num,
                     language |-> language, backend |-> backend]

CallGenerateMcqs ==
    /\ request.op = "generate_mcqs"
    /\ response = Idle
    /\ \E r \in {GenerateMcqs(impl, HAS_OPENAI, OPENAI_API_KEY, request.source_text,
                               request.num_q, request.language, request.backend)} :
           /\ response' = [kind |-> "generate_mcqs", result |-> r]
           /\ sent' = r.sent
    /\ UNCHANGED <<impl, HAS_OPENAI, OPENAI_API_KEY, session, request>>

NextGen == CallGenerateMcqs

SpecGen == InitGen /\ [][NextGen]_vars

-----------------------------------------------------------------------------
(* Properties of generate_mcqs (specification SpecGen) *)

GenDone == response.kind = "generate_mcqs"
Returned == GenDone /\ ~response.result.raised
Enabled == HAS_OPENAI /\ Truthy(OPENAI_API_KEY)

\* the requested count as an integer and the count in effect
RequestedInt == IntOf(request.num_q)
EffectiveCount ==
    IF RequestedInt.n < 1 THEN 1 ELSE IF RequestedInt.n > 10 THEN 10 ELSE RequestedInt.n

\* the entries of the reply's questions list (none when the reply has none)
ReplyEntries ==
    IF request.backend.kind = "reply" /\ request.backend.content.tag = "str"
    THEN LET d == _to_json(request.backend.content).val
             q == IF d.tag = "dict" THEN DictGet(d, <<"questions">>, PyNone) ELSE PyNone
         IN  IF q.tag = "list" THEN q.items ELSE <<>>
    ELSE <<>>

\* the first EffectiveCount entries of the reply
HeadEntries ==
    LET all == ReplyEntries
    IN  [k \in 1..(IF Len(all) < EffectiveCount THEN Len(all) ELSE EffectiveCount) |->
            all[k]]

HasKey(e, key) == \E p \in 1..Len(e.items) : e.items[p][1] = key
Field(e, key) == e.items[CHOOSE p \in 1..Len(e.items) : e.items[p][1] = key][2]

\* a valid candidate: a mapping whose question is not blank and whose
\* choices are a list of 4 (answer_index plays no part)
Acceptable(e) ==
    /\ e.tag = "dict"
    /\ HasKey(e, <<"question">>)
    /\ \E k \in 1..Len(StrOf(Field(e, <<"question">>))) :
           StrOf(Field(e, <<"question">>))[k] \notin Whitespace
    /\ HasKey(e, <<"choices">>)
    /\ Field(e, <<"choices">>).tag = "list"
    /\ Len(Field(e, <<"choices">>).items) = 4

\* the answer index an accepted candidate must get
ExpectedAnswer(e) ==
    LET v == IF HasKey(e, <<"answer_index">>) THEN IntOf(Field(e, <<"answer_index">>))
             ELSE [ok |-> TRUE, n |-> 0]
    IN  IF ~v.ok \/ v.n < 0 THEN 0 ELSE IF v.n > 3 THEN 3 ELSE v.n

\* the question an accepted candidate must become
Expected(e) ==
    [question |-> PyStr(Strip(StrOf(Field(e, <<"question">>)))),
     choices |-> PyList([k \in 1..4 |-> PyStr(StrOf(Field(e, <<"choices">>).items[k]))]),
     answer_index |-> PyInt(ExpectedAnswer(e))]

KeptHead == SelectSeq(HeadEntries, Acceptable)

ResultQuestions == response.result.quiz.questions

\* the questions of the result taken from the reply
DerivedQuestions == SubSeq(ResultQuestions, 1, response.result.derived)

WellFormed(q) ==
    /\ q.question.tag = "str"
    /\ \E k \in 1..Len(q.question.s) : q.question.s[k] \notin Whitespace
    /\ q.choices.tag = "list"
    /\ Len(q.choices.items) = 4
    /\ \A k \in 1..Len(q.choices.items) : q.choices.items[k].tag = "str"
    /\ q.answer_index.tag = "int"
    /\ q.answer_index.n \in 0..3

\* C1 (as claimed): for every integer requested count and every backend
\* outcome, in both builds, the returned quiz has exactly
\* min(10, max(1, n)) questions.
C1_ExactCount ==
    (GenDone /\ RequestedInt.ok)
        => (~response.result.raised /\ Len(ResultQuestions) = EffectiveCount)

\* C2 (as claimed): generate_mcqs called with the raw num_questions form
\* field never lets an exception out: it always returns a quiz.
C2_NeverRaises ==
    (GenDone /\ request.num_q.tag = "str")
        => (~response.result.raised /\ Len(ResultQuestions) >= 1)

\* C3: every question of a returned quiz has a question text that is not
\* blank, exactly 4 choices that are all text and an integer answer_index
\* in 0..3; of the candidates read, those with a blank question or with
\* choices that are absent, no list or not 4 long are dropped and all the
\* others kept, whatever their answer_index, which becomes 0 when missing
\* or non-numeric and is clamped into 0..3 otherwise.
C3_WellFormedQuestions ==
    Returned =>
        LET kept == KeptHead
        IN  /\ \A i \in 1..Len(ResultQuestions) : WellFormed(ResultQuestions[i])
            /\ response.result.path = "backend" =>
                  /\ response.result.derived = Len(kept)
                  /\ \A k \in 1..Len(kept) :
                        ResultQuestions[k].answer_index = PyInt(ExpectedAnswer(kept[k]))

\* C3 witness: a reply was read in which one candidate was dropped and a
\* kept one had non-text choices and answer_index 5, stored as 3
C3_Witness ==
    /\ Returned
    /\ response.result.path = "backend"
    /\ LET head == HeadEntries
           kept == SelectSeq(head, Acceptable)
       IN  /\ Len(kept) < Len(head)
           /\ \E k \in 1..Len(kept) :
                 /\ Field(kept[k], <<"answer_index">>) = PyInt(5)
                 /\ Field(kept[k], <<"choices">>).items[1].tag = "int"
                 /\ ResultQuestions[k].answer_index = PyInt(3)

\* C7 (as claimed): the questions of a returned quiz that come from the
\* reply are exactly the valid candidates among the first requested-count
\* entries of the reply's questions list, in the reply's order.
C7_DerivedAreValidCandidates ==
    Returned =>
        LET kept == KeptHead
        IN  DerivedQuestions = [k \in 1..Len(kept) |-> Expected(kept[k])]

\* C7 (amended): the same, provided every one of those first entries is a
\* mapping: then the derived questions are the valid candidates in order,
\* followed in Qlick by the dummy questions up to the count; when one of
\* the entries is no mapping the reply is discarded as a whole and the
\* fallback quiz is returned.
C7_DerivedAreValidCandidatesOfMappings ==
    Returned =>
        LET head == HeadEntries
            kept == SelectSeq(head, Acceptable)
        IN  IF \A k \in 1..Len(head) : head[k].tag = "dict"
            THEN /\ DerivedQuestions = [k \in 1..Len(kept) |-> Expected(kept[k])]
                 /\ response.result.path = "backend" =>
                       \A k \in (Len(kept) + 1)..Len(ResultQuestions) :
                           ResultQuestions[k] = DummyQuestion(k, request.language)
                 /\ response.result.path = "fallback" => kept = <<>>
            ELSE /\ response.result.path = "fallback"
                 /\ response.result.derived = 0
                 /\ response.result.quiz = Fallback(impl, EffectiveCount, request.language)

\* C7 witness: the reply held more entries than the count, an early one was
\* rejected, a valid one lay past the count, and the same candidate was
\* kept twice
C7_Witness ==
    /\ Returned
    /\ response.result.path = "backend"
    /\ LET all == ReplyEntries
           head == SubSeq(all, 1, EffectiveCount)
           kept == SelectSeq(head, Acceptable)
       IN  /\ Len(all) > EffectiveCount
           /\ Acceptable(all[Len(all)])
           /\ Len(kept) < Len(head)
           /\ Len(kept) >= 2
           /\ \E i, j \in 1..Len(kept) : i < j /\ kept[i] = kept[j]
           /\ DerivedQuestions = [k \in 1..Len(kept) |-> Expected(kept[k])]

\* C10 (as claimed): an invocation issues no request when no credential is
\* configured or the client failed to initialise and exactly one otherwise;
\* when the request fails or none is made the result is the fallback quiz
\* of the clamped count.
C10_OneRequestThenFallback ==
    GenDone =>
        /\ Len(sent) <= 1
        /\ Len(sent) = (IF Enabled THEN 1 ELSE 0)
        /\ (~Enabled \/ request.backend.kind = "raise") =>
              /\ ~response.result.raised
              /\ response.result.quiz = Fallback(impl, EffectiveCount, request.language)

-----------------------------------------------------------------------------
(* Properties of _to_json (specification SpecJson) *)

\* C4 (as claimed): _to_json returns the result of the first attempt that
\* succeeds among the strict parse, the parse of the span from the first {
\* to the last }, and the parse with ' replaced by "; its result is always
\* a mapping, the empty one when all three fail, and it never raises.
C4_ToJsonReturnsMapping ==
    (response.kind = "_to_json" /\ request.raw.tag = "str") =>
        LET a1 == JsonLoads(request.raw.s)
            m == BraceSpan(request.raw.s)
            a2 == JsonLoads(m.span)
            a3 == JsonLoads(ReplaceQuotes(request.raw.s))
            r == response.result
        IN  /\ ~r.raised
            /\ r.val.tag = "dict"
            /\ r.val = IF a1.ok THEN a1.val
                       ELSE IF m.found /\ a2.ok THEN a2.val
                       ELSE IF a3.ok THEN a3.val ELSE EmptyDict

-----------------------------------------------------------------------------
(* The routes *)

MaxFlashes == 1
MaxFormFields == 2

\* request.form.get(name, default): an absent field is PyNone
FormGet(field, default) == IF field = PyNone THEN default ELSE field

\* flash(message, "error"): one more message in session["_flashes"]
Flash(sess) == [sess EXCEPT !.flashes = @ + 1]

\* redirect(url_for(...)) to the input page of the build
RedirectToStart(im, flashed) ==
    [kind |-> "redirect", to |-> IF im = "Qlick" THEN "quiz_page" ELSE "index",
     flashed |-> flashed]

\* GET / and GET /quiz: a page is rendered, nothing is stored
GetPage ==
    /\ \E route \in IF impl = "Qlick" THEN {"/", "/quiz"} ELSE {"/"} :
          /\ request' = [route |-> route]
          /\ response' = [kind |-> "page",
                          template |-> IF impl = "Qlick" /\ route = "/"
                                       THEN "main.html" ELSE "page1_input.html"]
    /\ sent' = <<>>
    /\ UNCHANGED <<impl, HAS_OPENAI, OPENAI_API_KEY, session>>

\* the form fields of POST /generate; material stands for the field
\* "material" of Qlick and "input_text" of QlickProject
GenerateForms ==
    [num_questions : {PyNone, PyStr(<<"2">>), PyStr(<<"abc">>)},
     material : {PyNone, PyStr(<<" ", "\n">>), PyStr(<<" ", "abc">>)},
     language : IF impl = "Qlick" THEN {PyNone, PyStr(<<"ZhongWen">>)} ELSE {PyNone}]

RouteOutcomes ==
    { [kind |-> "raise"],
      [kind |-> "reply", content |-> PyStr(JsonText(QuizReply(
          << Good(1), Candidate(PyStr(<<>>), ChoicesABCD, PyInt(0)),
             Candidate(PyStr(<<"Qb">>), ChoicesABCD, PyStr(<<"7">>)) >>)))],
      [kind |-> "reply", content |-> PyStr(JsonText(QuizReply(<<PyStr(<<"junk">>)>>)))] }

\* generate_mcqs was not called
NotCalled == [raised |-> FALSE, sent |-> <<>>, path |-> "none",
              quiz |-> [questions |-> <<>>], derived |-> 0]

\* Mutant: the submitted material is not trimmed
SourceTextUntrimmed(material) == StrOf(PyOr(material, PyStr(<<>>)))

\* (request.form.get("material") or "").strip()
SourceText(material) == Strip(StrOf(PyOr(material, PyStr(<<>>))))

\* POST /generate
Generate ==
    \E form \in GenerateForms :
      LET num == FormGet(form.num_questions, PyStr(<<"5">>))
          text == SourceText(form.material)
          language == IF impl = "Qlick"
                      THEN FormGet(form.language, PyStr(<<"English">>)) ELSE PyNone
          reaches == Len(text) > 0 /\ IntOf(num).ok /\ HAS_OPENAI /\ Truthy(OPENAI_API_KEY)
      IN  \E backend \in IF reaches THEN RouteOutcomes ELSE {Unused} :
            \E r \in {IF Len(text) = 0 THEN NotCalled
                      ELSE GenerateMcqs(impl, HAS_OPENAI, OPENAI_API_KEY, text, num,
                                        language, backend)} :
                /\ request' = [route |-> "/generate", form |-> form, backend |-> backend]
                /\ IF Len(text) = 0
                   THEN /\ session.flashes < MaxFlashes
                        /\ session' = Flash(session)
                        /\ response' = RedirectToStart(impl, TRUE)
                        /\ sent' = <<>>
                   ELSE IF r.raised
                   THEN /\ response' = [kind |-> "error"]
                        /\ sent' = r.sent
                        /\ UNCHANGED session
                   ELSE IF r.quiz.questions = <<>>
                   THEN /\ session.flashes < MaxFlashes
                        /\ session' = Flash(session)
                        /\ response' = RedirectToStart(impl, TRUE)
                        /\ sent' = r.sent
                   ELSE /\ session' = [session EXCEPT !.quiz = r.quiz,
                                                       !.language = language]
                        /\ response' = [kind |-> "page", template |-> "page2_quiz.html",
                                        quiz |-> r.quiz, language |-> language]
                        /\ sent' = r.sent
                /\ UNCHANGED <<impl, HAS_OPENAI, OPENAI_API_KEY>>

\* Mutant: a value that is absent or no number counts as the choice 0
PickedIdxZero(picked) ==
    LET v == IntOf(picked)
    IN  IF picked.tag = "str" /\ v.ok THEN v.n ELSE 0

\* int(picked), -1 on TypeError (absent) and ValueError (no number)
PickedIdx(picked) ==
    LET v == IntOf(picked)
    IN  IF picked.tag = "str" /\ v.ok THEN v.n ELSE 0 - 1

\* the for loop of submit from question i on: the number of questions whose
\* answer_index equals the picked index
RECURSIVE CountCorrect(_, _, _)
CountCorrect(questions, user_answers, i) ==
    IF i > Len(questions) THEN 0
    ELSE (IF PyInt(user_answers[i]) = questions[i].answer_index THEN 1 ELSE 0)
            + CountCorrect(questions, user_answers, i + 1)

\* len(quiz["questions"]) or 1
Total(length) == IF length = 0 THEN 1 ELSE length

\* Mutant: the percentage is truncated instead of rounded
ScoreTruncated(correct, total) == (100 * correct) \div total

\* int(round(100 * correct / total)): round() of the quotient, a tie going
\* to the even neighbour (the quotients reached, of total <= 10, are far
\* enough from a tie for the float division not to matter)
Score(correct, total) ==
    LET q == (100 * correct) \div total
        r == (100 * correct) % total
    IN  IF 2 * r < total THEN q
        ELSE IF 2 * r > total THEN q + 1
        ELSE IF q % 2 = 0 THEN q ELSE q + 1

\* Mutant: the scored quiz is taken out of the session
SessionPopQuiz(sess) == [sess EXCEPT !.quiz = PyNone]

\* the session after submit has scored: submit stores nothing
SessionAfterSubmit(sess) == sess

\* the values of a field q_<idx> of the submitted form
PickValues ==
    {PyNone, PyStr(<<"x">>), PyStr(<<"0">>), PyStr(<<" ", "3", "\n">>)}

\* the submitted forms: fields q_0 .. q_(k-1), k <= MaxFormFields
SubmitForms == UNION {[1..k -> PickValues] : k \in 0..MaxFormFields}

\* request.form.get(f"q_{idx}")
PickedField(form, idx) == IF idx + 1 <= Len(form) THEN form[idx + 1] ELSE PyNone

\* POST /submit
Submit ==
    \E form \in SubmitForms :
      /\ request' = [route |-> "/submit", form |-> form]
      /\ sent' = <<>>
      /\ IF session.quiz = PyNone
         THEN /\ response' = RedirectToStart(impl, FALSE)
              /\ UNCHANGED session
         ELSE LET questions == session.quiz.questions
                  user_answers == [i \in 1..Len(questions) |->
                                      PickedIdx(PickedField(form, i - 1))]
                  correct == CountCorrect(questions, user_answers, 1)
                  total == Total(Len(questions))
              IN  /\ response' = [kind |-> "page", template |-> "page3_result.html",
                                  quiz |-> session.quiz, user_answers |-> user_answers,
                                  correct |-> correct, total |-> total,
                                  score |-> Score(correct, total),
                                  language |-> IF impl = "Qlick"
                                               THEN FormGet(session.language,
                                                            PyStr(<<"English">>))
                                               ELSE PyNone]
                  /\ session' = SessionAfterSubmit(session)
      /\ UNCHANGED <<impl, HAS_OPENAI, OPENAI_API_KEY>>

Init ==
    /\ impl \in {"Qlick", "QlickProject"}
    /\ \E env \in {<<FALSE, PyNone>>, <<TRUE, PyStr(<<"sk">>)>>} :
          /\ HAS_OPENAI = env[1]
          /\ OPENAI_API_KEY = env[2]
    /\ session = NoSession
    /\ request = [route |-> "none"]
    /\ response = Idle
    /\ sent = <<>>

Next == GetPage \/ Generate \/ Submit

Spec == Init /\ [][Next]_vars

-----------------------------------------------------------------------------
(* Properties of the routes (specification Spec) *)

\* submit has rendered the result page
Scored == response.kind = "page" /\ response.template = "page3_result.html"

\* generate has rendered the quiz page
Generated == response.kind = "page" /\ response.template = "page2_quiz.html"

\* the value submitted for question number i (from 1) is absent or is not
\* the text of an integer
Unanswered(form, i) ==
    \/ i > Len(form)
    \/ form[i] = PyNone
    \/ ~IntOf(form[i]).ok

\* C5: the result of scoring the stored quiz against a submission: a value
\* that is missing or is no number is recorded as -1 and is not counted;
\* correct is the number of positions whose recorded index equals the
\* answer_index of the question; total is max(1, number of questions); and
\* 0 <= correct <= number of questions.
C5_CorrectCount ==
    Scored =>
        LET questions == response.quiz.questions
            picked == response.user_answers
            matches == {i \in 1..Len(questions) :
                           questions[i].answer_index = PyInt(picked[i])}
        IN  /\ Len(picked) = Len(questions)
            /\ \A i \in 1..Len(questions) :
                   IF Unanswered(request.form, i)
                   THEN picked[i] = 0 - 1 /\ i \notin matches
                   ELSE picked[i] = IntOf(request.form[i]).n
            /\ response.correct = Cardinality(matches)
            /\ response.total = Max(1, Len(questions))
            /\ response.correct \in 0..Len(questions)

\* C5 witness: a quiz was scored in which one value was no number, recorded
\* as -1 and not counted, and another one matched the answer_index
C5_Witness ==
    /\ Scored
    /\ response.correct = 1
    /\ Len(request.form) = 2
    /\ request.form[1] = PyStr(<<"x">>)
    /\ response.user_answers[1] = 0 - 1
    /\ response.quiz.questions[2].answer_index = PyInt(response.user_answers[2])

\* C8 (as claimed): the quiz in the session is discarded once a submit has
\* scored it.
C8_DiscardedOnceScored == Scored => session.quiz = PyNone

\* C8 (amended): the quiz held in the session is the one of the most recent
\* generate that rendered a quiz: such a generate replaces it, and every
\* other request, the submit that scores it included, leaves it where it
\* is, so that a second submit scores the same quiz again.
C8_QuizOfLatestGenerate ==
    [][ /\ IF request'.route = "/generate" /\ response'.kind = "page"
           THEN session'.quiz = response'.quiz
           ELSE session'.quiz = session.quiz
        /\ (request'.route = "/submit" /\ session.quiz # PyNone) =>
               /\ response'.kind = "page"
               /\ response'.template = "page3_result.html"
               /\ response'.quiz = session.quiz ]_vars

\* C8 witness: a submit has scored the quiz and the session still holds it
C8_Witness ==
    /\ Scored
    /\ session.quiz # PyNone
    /\ session.quiz = response.quiz
    /\ Len(session.quiz.questions) >= 1

\* the submitted material is absent or has nothing but whitespace
BlankMaterial(material) ==
    \/ material = PyNone
    \/ material.tag = "str" /\ \A k \in 1..Len(material.s) : material.s[k] \in Whitespace

\* C9: a submit that finds no quiz in the session redirects to the start of
\* the flow, computes no score and leaves the session as it is; a generate
\* whose material is blank flashes a message and redirects, sends nothing to
\* the backend and leaves the stored quiz and language as they are.
C9_NoQuizAndBlankMaterial ==
    [][ /\ (request'.route = "/submit" /\ session.quiz = PyNone) =>
               /\ response' = RedirectToStart(impl, FALSE)
               /\ session' = session
               /\ sent' = <<>>
        /\ (request'.route = "/generate" /\ BlankMaterial(request'.form.material)) =>
               /\ response' = RedirectToStart(impl, TRUE)
               /\ session'.flashes = session.flashes + 1
               /\ session'.quiz = session.quiz
               /\ session'.language = session.language
               /\ request'.backend = Unused
               /\ sent' = <<>> ]_vars

\* C9 witness: a generate with material of whitespace only was turned away
\* while the session held a quiz, which it still holds
C9_Witness ==
    /\ request.route = "/generate"
    /\ request.form.material = PyStr(<<" ", "\n">>)
    /\ response = RedirectToStart(impl, TRUE)
    /\ session.quiz # PyNone
    /\ sent = <<>>

-----------------------------------------------------------------------------
(* The score of a quiz of any length (specification SpecScore) *)

InitScore ==
    /\ impl \in {"Qlick", "QlickProject"}
    /\ HAS_OPENAI = FALSE
    /\ OPENAI_API_KEY = PyNone
    /\ session = NoSession
    /\ sent = <<>>
    /\ response = Idle
    /\ \E length \in 0..MaxQuestions : \E correct \in 0..length :
          request = [op |-> "score", length |-> length, correct |-> correct]

CallScore ==
    /\ request.op = "score"
    /\ response = Idle
    /\ response' = [kind |-> "score", total |-> Total(request.length),
                    score |-> Score(request.correct, Total(request.length))]
    /\ UNCHANGED <<impl, HAS_OPENAI, OPENAI_API_KEY, session, request, sent>>

NextScore == CallScore

SpecScore == InitScore /\ [][NextScore]_vars

\* distance of a and b
Dist(a, b) == IF a < b THEN b - a ELSE a - b

\* C6: for every quiz length 0..10 and every number of correct answers up
\* to it the score is an integer of 0..100 nearest to 100 * correct / total,
\* total being max(1, length): 2 * |score * total - 100 * correct| <= total;
\* it is 100 exactly when all of a non-empty quiz is correct and 0 for the
\* empty quiz, whose total is 1.
C6_ScoreIsNearestPercent ==
    response.kind = "score" =>
        LET length == request.length
            correct == request.correct
            total == response.total
            score == response.score
        IN  /\ total = Max(1, length)
            /\ total > 0
            /\ score \in 0..100
            /\ 2 * Dist(score * total, 100 * correct) <= total
            /\ (score = 100) <=> (length > 0 /\ correct = length)
            /\ length = 0 => score = 0
            /\ (length = 3 /\ correct = 2) => score = 67

\* C6 witness: 2 of 3 correct were scored 67
C6_Witness ==
    /\ response.kind = "score"
    /\ request.length = 3
    /\ request.correct = 2
    /\ response.score = 67

====
